---- MODULE Spec2Model ----
(***************************************************************************)
(* Model of the Arrow session layer (src/net/arrow/proto/session.rs):      *)
(* SessionContext, Session, SessionTransport, SessionErrorHandler and      *)
(* SessionManager, and of the Service Table with the encoding of its       *)
(* services (src/net/arrow/proto/msg/control/svc_table.rs).                *)
(*                                                                         *)
(* Bytes of the remote->upstream direction are numbered by their offset in *)
(* the socket stream of a context; a byte buffer is a sequence of          *)
(* half-open intervals <<lo, hi>> of such offsets, adjacent intervals      *)
(* merged.  The output buffer is the sequence of the payloads appended to  *)
(* it, each payload standing for its length; lengths go up to 2^32 and are *)
(* kept as two 16-bit limbs <<hi, lo>>.                                    *)
(***************************************************************************)
EXTENDS Integers, Sequences, FiniteSets, TLC

\* ------------------------------------------------------------------ bounds
\* the manager with several sessions (Spec, FairSpec)
MaxSends   == 2      \* calls of SessionManager::send over a run
MaxChunks  == 1      \* chunks the bridges read from their sockets over a run
\* one session with all the operations of its context (SpecCtx)
CtxSends   == 2      \* calls of SessionManager::send over a run
CtxChunks  == 2      \* chunks the bridge reads from its socket over a run
\* the manager with three sessions and the order of their service (SpecRR)
RRChunks   == 3      \* chunks the bridges read from their sockets over a run
\* one session whose bridge closes its transport (SpecClose, FairSpecClose)
CloseSends  == 2     \* calls of SessionManager::send over a run
CloseChunks == 2     \* chunks the bridge reads from its socket over a run
\* one session id addressed by messages of two services (SpecIds)
IdSends  == 2        \* calls of SessionManager::send over a run
IdChunks == 1        \* chunks the bridges read from their sockets over a run
\* the Service Table (SpecSvc)
MaxTable   == 2      \* services stored in the table

\* every context is created by a send
Max(a, b)  == IF a > b THEN a ELSE b
MaxCtx     == Max(Max(Max(MaxSends, CtxSends), IdSends), 3)

SessionIds == {1, 2}
\* the sessions A, B and C
RRSessionIds == {1, 2, 3}
ServiceIds == {1, 2}
\* the arguments of the constructors of Service
Ids        == {0, 1, 258}
Macs       == {<<1, 2, 3, 4, 5, 6>>}
Paths      == {<<>>, <<97>>}
\* lengths of the chunks the raw codec hands to the transport
ChunkLens  == {1, 40000}

\* --------------------------------------------------------------- constants
INPUT_BUFFER_LIMIT == 32768

Limb == 2^16

OUTPUT_BUFFER_LIMIT == <<4 * 16 * 1024, 0>>

\* lengths of the payloads given to send: 1, 2 and 2^32 - 1
SendLens == {<<0, 1>>, <<0, 2>>, <<Limb - 1, Limb - 1>>}

\* ------------------------------------------------------- usize arithmetic
BigAdd(a, b) ==
    LET lo == a[2] + b[2]
    IN  <<a[1] + b[1] + (lo \div Limb), lo % Limb>>

BigGT(a, b) == a[1] > b[1] \/ (a[1] = b[1] /\ a[2] > b[2])

BigZero == <<0, 0>>

\* ------------------------------------------------------------ byte buffers
RECURSIVE BufLen(_)
BufLen(buf) ==
    IF buf = <<>> THEN 0
    ELSE (buf[1][2] - buf[1][1]) + BufLen(Tail(buf))

\* the bytes of a followed by the bytes of b
RECURSIVE Join(_, _)
Join(a, b) ==
    IF b = <<>> THEN a
    ELSE LET iv == Head(b)
         IN  IF iv[1] = iv[2] THEN Join(a, Tail(b))
             ELSE IF a # <<>> /\ a[Len(a)][2] = iv[1]
             THEN Join([a EXCEPT ![Len(a)] = <<@[1], iv[2]>>], Tail(b))
             ELSE Join(Append(a, iv), Tail(b))

\* a holds the first bytes of b
IsPrefix(a, b) ==
    \/ a = <<>>
    \/ /\ Len(a) <= Len(b)
       /\ \A i \in 1..(Len(a) - 1) : a[i] = b[i]
       /\ a[Len(a)][1] = b[Len(a)][1]
       /\ IF Len(a) = Len(b) THEN a[Len(a)][2] <= b[Len(a)][2]
          ELSE a[Len(a)][2] = b[Len(a)][2]

\* the mutant puts the new bytes in front of the buffered ones
ExtendFront(buf, iv) == Join(<<iv>>, buf)

\* BytesMut::extend with the bytes iv
Extend(buf, iv) == Join(buf, <<iv>>)

RECURSIVE OutLen(_)
OutLen(out) ==
    IF out = <<>> THEN BigZero ELSE BigAdd(out[1], OutLen(Tail(out)))

\* BytesMut::extend with the payload of a message
ExtendOut(out, data) ==
    IF data = BigZero THEN out ELSE Append(out, data)

\* ------------------------------------------------------------------- tasks
NoTask   == "none"
Consumer == "consumer"
BridgeTask == "bridge"

NoError == "none"

\* ---------------------------------------------------------- SessionContext
NewContext(service_id, session_id) ==
    [service_id   |-> service_id,
     session_id   |-> session_id,
     input        |-> <<>>,
     output       |-> <<>>,
     input_ready  |-> NoTask,
     input_empty  |-> NoTask,
     output_ready |-> NoTask,
     closed       |-> FALSE,
     error        |-> NoError]

\* Option<Task>::take followed by unpark: the tasks woken
Woken(slot) == IF slot = NoTask THEN {} ELSE {slot}

\* the mutant records the error whether the context is closed or not
SetErrorAlways(cx, err) == [cx EXCEPT !.closed = TRUE, !.error = err]

set_error(cx, err) ==
    IF ~cx.closed
    THEN [cx EXCEPT !.closed = TRUE, !.error = err]
    ELSE cx

close(cx) == [cx EXCEPT !.closed = TRUE]

\* the mutant accepts a payload as long as the buffer itself is within the limit
OverLimitBefore(outLen, dataLen) == BigGT(outLen, OUTPUT_BUFFER_LIMIT)

\* the comparison of push_output_message
OverLimit(outLen, dataLen) ==
    BigGT(BigAdd(outLen, dataLen), OUTPUT_BUFFER_LIMIT)

\* the mutant drops a payload that does not fit and leaves the context open
PushOutputDropsOverflow(cx, data) ==
    IF cx.closed \/ OverLimit(OutLen(cx.output), data)
    THEN [ctx |-> cx, wake |-> {}]
    ELSE LET out == ExtendOut(cx.output, data)
         IN  IF out # <<>>
             THEN [ctx  |-> [cx EXCEPT !.output = out, !.output_ready = NoTask],
                   wake |-> Woken(cx.output_ready)]
             ELSE [ctx |-> [cx EXCEPT !.output = out], wake |-> {}]

\* the mutant appends to the output of a closed context too
PushOutputIgnoresClosed(cx, data) ==
    LET out == ExtendOut(cx.output, data)
    IN  [ctx  |-> [cx EXCEPT !.output = out, !.output_ready = NoTask],
         wake |-> Woken(cx.output_ready)]

push_output_message(cx, data) ==
    IF cx.closed THEN [ctx |-> cx, wake |-> {}]
    ELSE IF OverLimit(OutLen(cx.output), data)
    THEN [ctx |-> set_error(cx, "output buffer limit exceeded"), wake |-> {}]
    ELSE LET out == ExtendOut(cx.output, data)
         IN  IF out # <<>>
             THEN [ctx  |-> [cx EXCEPT !.output = out, !.output_ready = NoTask],
                   wake |-> Woken(cx.output_ready)]
             ELSE [ctx |-> [cx EXCEPT !.output = out], wake |-> {}]

\* the mutant reports the end of the stream although bytes were taken
TakeResultDropsData(data, closed, error) ==
    IF closed THEN (IF error # NoError THEN "err" ELSE "none")
    ELSE IF data # <<>> THEN "some"
    ELSE "notready"

\* which of the four outcomes take_input_message has
TakeResult(data, closed, error) ==
    IF data # <<>> THEN "some"
    ELSE IF closed THEN (IF error # NoError THEN "err" ELSE "none")
    ELSE "notready"

take_input_message(cx, task) ==
    LET data == cx.input
        kind == TakeResult(data, cx.closed, cx.error)
        c1   == [cx EXCEPT !.input = <<>>, !.input_empty = NoTask]
    IN  [ctx  |-> CASE kind = "err"      -> [c1 EXCEPT !.error = NoError]
                    [] kind = "notready" -> [c1 EXCEPT !.input_ready = task]
                    [] OTHER             -> c1,
         wake |-> Woken(cx.input_empty),
         kind |-> kind,
         data |-> data,
         err  |-> IF kind = "err" THEN cx.error ELSE NoError,
         service_id |-> cx.service_id,
         session_id |-> cx.session_id]

\* the mutant keeps one byte of the buffer free
TakeLenOneLess(msgLen, inLen) ==
    IF (msgLen + inLen) > INPUT_BUFFER_LIMIT - 1
    THEN INPUT_BUFFER_LIMIT - 1 - inLen
    ELSE msgLen

\* the mutant never clips the chunk
TakeLenUnclipped(msgLen, inLen) == msgLen

\* number of bytes of the chunk that push_input_data appends; a negative
\* value stands for the underflow of the usize subtraction
TakeLen(msgLen, inLen) ==
    IF (msgLen + inLen) > INPUT_BUFFER_LIMIT
    THEN INPUT_BUFFER_LIMIT - inLen
    ELSE msgLen

\* the mutant appends the chunk to a closed context
PushClosedAccepts(cx) == FALSE

\* the early return of push_input_data
PushRejected(cx) == cx.closed

push_input_data(cx, msg, task) ==
    IF PushRejected(cx)
    THEN [ctx |-> cx, wake |-> {}, kind |-> "err", rest |-> msg,
          taken |-> <<msg[1], msg[1]>>, panic |-> FALSE]
    ELSE
    LET take == TakeLen(msg[2] - msg[1], BufLen(cx.input))
    IN  IF take < 0 \/ take > msg[2] - msg[1]
        \* the subtraction underflows (a panic in a debug build, a wrapped
        \* length and a panic of split_to in a release build)
        THEN [ctx |-> cx, wake |-> {}, kind |-> "panic", rest |-> msg,
              taken |-> <<msg[1], msg[1]>>, panic |-> TRUE]
        ELSE
        LET head == <<msg[1], msg[1] + take>>
            rest == <<msg[1] + take, msg[2]>>
            inp  == Extend(cx.input, head)
            c1   == IF inp # <<>>
                    THEN [cx EXCEPT !.input = inp, !.input_ready = NoTask]
                    ELSE [cx EXCEPT !.input = inp]
            wk   == IF inp # <<>> THEN Woken(cx.input_ready) ELSE {}
        IN  IF rest[2] - rest[1] > 0
            THEN [ctx |-> [c1 EXCEPT !.input_empty = task], wake |-> wk,
                  kind |-> "notready", rest |-> rest, taken |-> head,
                  panic |-> FALSE]
            ELSE [ctx |-> c1, wake |-> wk, kind |-> "ready", rest |-> rest,
                  taken |-> head, panic |-> FALSE]

\* the mutant lets a flush complete over buffered input
FlushAlwaysReady(cx, task) == [ctx |-> cx, kind |-> "ready"]

flush_input_buffer(cx, task) ==
    IF BufLen(cx.input) > 0
    THEN [ctx |-> [cx EXCEPT !.input_empty = task], kind |-> "notready"]
    ELSE [ctx |-> cx, kind |-> "ready"]

take_output_data(cx, task) ==
    LET data == cx.output
        c1   == [cx EXCEPT !.output = <<>>]
    IN  IF data # <<>> THEN [ctx |-> c1, kind |-> "some", data |-> data]
        ELSE IF cx.closed THEN [ctx |-> c1, kind |-> "none", data |-> data]
        ELSE [ctx |-> [c1 EXCEPT !.output_ready = task],
              kind |-> "notready", data |-> data]

\* ------------------------------------------------- Service, ServiceTable
\* (src/net/arrow/proto/msg/control/svc_table.rs)
\* Option<T>: None is the empty sequence, Some(x) the sequence of x alone
None == <<>>

Some(x) == <<x>>

\* Option::unwrap_or
UnwrapOr(opt, default) == IF opt = None THEN default ELSE opt[1]

\* the mutant gives an RTSP service that requires authentication the code of
\* a plain one
CodePlainRtsp(svc_type) ==
    CASE svc_type = "ControlProtocol" -> 0
      [] svc_type = "RTSP"            -> 1
      [] svc_type = "LockedRTSP"      -> 1
      [] svc_type = "UnknownRTSP"     -> 3
      [] svc_type = "UnsupportedRTSP" -> 4
      [] svc_type = "HTTP"            -> 5
      [] svc_type = "MJPEG"           -> 6
      [] svc_type = "LockedMJPEG"     -> 7
      [] svc_type = "TCP"             -> 65535

\* ServiceType::code
Code(svc_type) ==
    CASE svc_type = "ControlProtocol" -> 0
      [] svc_type = "RTSP"            -> 1
      [] svc_type = "LockedRTSP"      -> 2
      [] svc_type = "UnknownRTSP"     -> 3
      [] svc_type = "UnsupportedRTSP" -> 4
      [] svc_type = "HTTP"            -> 5
      [] svc_type = "MJPEG"           -> 6
      [] svc_type = "LockedMJPEG"     -> 7
      [] svc_type = "TCP"             -> 65535

\* struct Service
MkService(svc_type, id, mac, address, path) ==
    [svc_type |-> svc_type, id |-> id, mac |-> mac, address |-> address,
     path |-> path]

\* Service::new
ServiceNew(id, svc) == [svc EXCEPT !.id = id]

control == MkService("ControlProtocol", 0, None, None, None)

rtsp(id, mac, address, path) ==
    MkService("RTSP", id, Some(mac), Some(address), Some(path))

locked_rtsp(id, mac, address, path) ==
    MkService("LockedRTSP", id, Some(mac), Some(address), path)

unknown_rtsp(id, mac, address) ==
    MkService("UnknownRTSP", id, Some(mac), Some(address), None)

unsupported_rtsp(id, mac, address, path) ==
    MkService("RTSP", id, Some(mac), Some(address), Some(path))

http(id, mac, address) ==
    MkService("HTTP", id, Some(mac), Some(address), None)

mjpeg(id, mac, address, path) ==
    MkService("MJPEG", id, Some(mac), Some(address), Some(path))

locked_mjpeg(id, mac, address, path) ==
    MkService("LockedMJPEG", id, Some(mac), Some(address), path)

tcp(id, mac, address) ==
    MkService("TCP", id, Some(mac), Some(address), None)

\* u16::to_be followed by the bytes of the value in memory
U16Be(x) == <<x \div 256, x % 256>>

Zeros(n) == [i \in 1..n |-> 0]

\* MacAddr::octets
Octets(mac) == mac

\* IpAddrEx::version
IpVersion(ip) == ip.v

\* IpAddrEx::bytes: an IPv4 address takes the first 4 of the 16 bytes
IpBytes(ip) == IF ip.v = 4 THEN ip.b \o Zeros(12) ELSE ip.b

null_maddress == <<0, 0, 0, 0, 0, 0>>

\* a SocketAddr: the IP address (version and bytes), the port, and for an
\* IPv6 address the scope id (0 for an IPv4 address, which has none)
SocketAddr(v, b, port, scope) ==
    [ip |-> [v |-> v, b |-> b], port |-> port, scope |-> scope]

null_saddress == SocketAddr(4, <<0, 0, 0, 0>>, 0, 0)

\* From<&Service> for ServiceHeader
ServiceHeaderFrom(service) ==
    LET maddress == UnwrapOr(service.mac, null_maddress)
        saddress == UnwrapOr(service.address, null_saddress)
        iaddress == saddress.ip
    IN  [svc_id     |-> service.id,
         svc_type   |-> Code(service.svc_type),
         mac_addr   |-> Octets(maddress),
         ip_version |-> IpVersion(iaddress),
         ip_addr    |-> IpBytes(iaddress),
         port       |-> saddress.port]

\* Encode for ServiceHeader: the packed header with its integers big-endian
HeaderEncode(h, buf) ==
    buf \o U16Be(h.svc_id) \o U16Be(h.svc_type) \o h.mac_addr
        \o <<h.ip_version>> \o h.ip_addr \o U16Be(h.port)

\* mem::size_of::<ServiceHeader>() of the packed struct
HeaderSize == 2 + 2 + 6 + 1 + 16 + 2

\* the mutant leaves out the terminator of the path
ServiceEncodeNoNul(service, buf) ==
    HeaderEncode(ServiceHeaderFrom(service), buf)
        \o UnwrapOr(service.path, <<>>)

\* Encode for Service
ServiceEncode(service, buf) ==
    HeaderEncode(ServiceHeaderFrom(service), buf)
        \o UnwrapOr(service.path, <<>>) \o <<0>>

\* MessageBody::len for Service
ServiceLen(service) ==
    LET plen == Len(UnwrapOr(service.path, <<>>)) + 1
    IN  HeaderSize + plen

\* the mutant looks through the stored services first
RECURSIVE getStoredFirst(_, _)
getStoredFirst(table, id) ==
    IF table = <<>> THEN (IF id = 0 THEN Some(control) ELSE None)
    ELSE IF id = Head(table).id THEN Some(Head(table))
    ELSE getStoredFirst(Tail(table), id)

\* the loop of SimpleServiceTable::get
RECURSIVE Lookup(_, _)
Lookup(table, id) ==
    IF table = <<>> THEN None
    ELSE IF id = Head(table).id THEN Some(Head(table))
    ELSE Lookup(Tail(table), id)

\* SimpleServiceTable::get
get(table, id) ==
    IF id = 0 THEN Some(control) ELSE Lookup(table, id)

\* Encode for SimpleServiceTable
RECURSIVE TableEncode(_, _)
TableEncode(table, buf) ==
    IF table = <<>> THEN ServiceEncode(control, buf)
    ELSE TableEncode(Tail(table), ServiceEncode(Head(table), buf))

\* the loop of MessageBody::len for SimpleServiceTable
RECURSIVE SumLen(_, _)
SumLen(table, len) ==
    IF table = <<>> THEN len
    ELSE SumLen(Tail(table), len + ServiceLen(Head(table)))

\* MessageBody::len for SimpleServiceTable
TableLen(table) == SumLen(table, 0) + ServiceLen(control)

\* 192.0.2.1:554, and [2001:db8::1]:554 with scope id 0 and 1
Addrs ==
    {SocketAddr(4, <<192, 0, 2, 1>>, 554, 0)} \cup
    {SocketAddr(6, <<32, 1, 13, 184>> \o Zeros(11) \o <<1>>, 554, scope) :
        scope \in {0, 1}}

\* Option<String> over Paths
OptPaths == {None} \cup {Some(path) : path \in Paths}

\* every Service the constructors build from these arguments
Constructible ==
    {ServiceNew(id, control) : id \in Ids} \cup
    UNION {UNION {UNION {
        {rtsp(id, mac, address, path) : path \in Paths} \cup
        {locked_rtsp(id, mac, address, path) : path \in OptPaths} \cup
        {unknown_rtsp(id, mac, address)} \cup
        {unsupported_rtsp(id, mac, address, path) : path \in Paths} \cup
        {http(id, mac, address)} \cup
        {mjpeg(id, mac, address, path) : path \in Paths} \cup
        {locked_mjpeg(id, mac, address, path) : path \in OptPaths} \cup
        {tcp(id, mac, address)}
      : address \in Addrs} : mac \in Macs} : id \in Ids}

\* the services the tables are made of: two with the same id, one stored
\* under id 0, one without a path
Stored ==
    LET mac  == CHOOSE m \in Macs : TRUE
        a4   == CHOOSE a \in Addrs : a.ip.v = 4
        a6   == CHOOSE a \in Addrs : a.ip.v = 6 /\ a.scope = 0
    IN  {rtsp(1, mac, a4, <<97>>), http(1, mac, a6), tcp(0, mac, a4),
         locked_rtsp(258, mac, a6, None)}

\* SimpleServiceTable::from
Tables == UNION {[1..n -> Stored] : n \in 0..MaxTable}

\* ------------------------------------------------------------------- state
VARIABLES
    sessions,    \* SessionManager.sessions: session id -> Session
    poll_order,  \* SessionManager.poll_order
    ctxs,        \* the SessionContext objects, in the order of their creation
    awake,       \* the consumer task was unparked or got a Ready result
    bridge,      \* per context: the position of its TCP bridge
    hist,        \* per context: the bytes accepted and delivered, the HUPs
    nsend,       \* number of send calls so far
    nread,       \* number of chunks read from the sockets so far
    ret,         \* the last call and what it returned
    last,        \* the context whose message poll returned last, and the
                 \* number of contexts there were at that poll
    services,    \* SimpleServiceTable.services
    svc_ret      \* the last call on the table or on a service, and its result

\* the variables of the Service Table
tvars == <<services, svc_ret>>

\* the variables of the session layer
svars == <<sessions, poll_order, ctxs, awake, bridge, hist, nsend, nread, ret,
           last>>

vars == <<svars, tvars>>

NoData == <<>>

Ret(op, c, kind, data, code, svc, sid, visited) ==
    [op |-> op, ctx |-> c, kind |-> kind, data |-> data, code |-> code,
     service_id |-> svc, session_id |-> sid, visited |-> visited,
     err |-> NoError]

Ctxs == 1..Len(ctxs)

\* map helpers (HashMap::insert / remove)
MapInsert(m, k, v) ==
    [x \in (DOMAIN m) \cup {k} |-> IF x = k THEN v ELSE m[x]]

MapRemove(m, k) == [x \in (DOMAIN m) \ {k} |-> m[x]]

EmptyMap == [x \in {} |-> 0]

\* ----------------------------------------------------------- SessionManager
\* Session::new: the session wrapper caches the service id
\* the mutant creates the session without the service id of the message
NewSessionNoService(service_id, c) == [service_id |-> 0, ctx |-> c]

NewSession(service_id, c) == [service_id |-> service_id, ctx |-> c]

\* the mutant inserts the new session and leaves poll_order as it is
RegisterNoOrder(order, session_id) == order

\* get_session_mut: the id of a new session goes to the tail of poll_order
Register(order, session_id) == Append(order, session_id)

\* the mutant keeps the session whatever take returned
RetainAlways(kind) == TRUE

\* the mutant keeps only a session that produced a message
RetainSomeOnly(kind) == kind = "some"

\* poll: whether the session goes back into the map after take
Retain(kind) == kind \in {"notready", "some"}

\* the mutant puts a session that was not ready back at the head
RequeueNotReadyFront(order, session_id, kind) ==
    IF kind = "notready" THEN <<session_id>> \o order
    ELSE IF kind = "some" THEN Append(order, session_id) ELSE order

\* the mutant puts a session that produced a message back at the head
RequeueFront(order, session_id, kind) ==
    IF kind = "some" THEN <<session_id>> \o order
    ELSE IF kind = "notready" THEN Append(order, session_id) ELSE order

\* the mutant puts the id back at the tail whatever take returned
RequeueAlways(order, session_id, kind) == Append(order, session_id)

\* poll: the id goes back to the tail of poll_order unless the session ended
Requeue(order, session_id, kind) ==
    IF kind \in {"notready", "some"} THEN Append(order, session_id) ELSE order

\* the mutant reports every end of a session as a clean one
HupCodeZero(kind) == 0

\* poll: the error code of the synthesized HUP
HupCode(kind) == IF kind = "err" THEN 3 ELSE 0

\* create_hup_message
create_hup_message(service_id, session_id, error_code) ==
    [service_id |-> service_id, session_id |-> session_id,
     hup |-> TRUE, control_msg_id |-> 0, error_code |-> error_code]

\* The loop of SessionManager::poll.  The result carries the new map, queue
\* and contexts, whether a parked feeder was woken, what is returned, and the
\* contexts on which take was called.
RECURSIVE PollLoop(_, _, _, _, _)
PollLoop(count, sess, order, cx, visited) ==
    IF count = 0 \/ order = <<>>
    THEN [sessions |-> sess, poll_order |-> order, ctxs |-> cx,
          visited |-> visited, kind |-> "notready", ctx |-> 0,
          data |-> NoData, err |-> NoError, msg |-> create_hup_message(0, 0, 0)]
    ELSE
    LET session_id == Head(order)
        order1     == Tail(order)
    IN  IF session_id \notin DOMAIN sess
        THEN PollLoop(count - 1, sess, order1, cx, visited)
        ELSE
        LET session == sess[session_id]
            sess1   == MapRemove(sess, session_id)
            c       == session.ctx
            r       == take_input_message(cx[c], Consumer)
            cx1     == [cx EXCEPT ![c] = r.ctx]
            sess2   == IF Retain(r.kind)
                       THEN MapInsert(sess1, session_id, session) ELSE sess1
            order2  == Requeue(order1, session_id, r.kind)
            vis1    == Append(visited, c)
        IN  IF r.kind = "notready"
            THEN PollLoop(count - 1, sess2, order2, cx1, vis1)
            ELSE [sessions |-> sess2, poll_order |-> order2, ctxs |-> cx1,
                  visited |-> vis1, kind |-> r.kind, ctx |-> c,
                  data |-> r.data, err |-> r.err,
                  msg |-> IF r.kind = "some"
                          THEN [service_id |-> r.service_id,
                                session_id |-> r.session_id,
                                hup |-> FALSE, control_msg_id |-> 0,
                                error_code |-> 0]
                          ELSE create_hup_message(session.service_id,
                                                  session_id, HupCode(r.kind))]

NewBridge == [off |-> 0, rem |-> <<0, 0>>, closing |-> FALSE]

NoLast == <<0, 0>>

NewHist == [accepted |-> <<>>, delivered |-> <<>>, hups |-> 0,
            recorded |-> FALSE]

\* what svc_ret holds: the call, its arguments (id, service), and the results
\* (the Option<Service> of get, the bytes of encode, the number of len)
SvcRet(op, id, svc, found, buf, len) ==
    [op |-> op, id |-> id, svc |-> svc, found |-> found, buf |-> buf,
     len |-> len]

--------------------------------------------------------------------------
\* the session layer after SessionManager::new
InitSessions ==
    /\ sessions = EmptyMap
    /\ poll_order = <<>>
    /\ ctxs = <<>>
    /\ awake = TRUE
    /\ bridge = <<>>
    /\ hist = <<>>
    /\ nsend = 0
    /\ nread = 0
    /\ ret = Ret("new", 0, "ready", NoData, 0, 0, 0, <<>>)
    /\ last = NoLast

\* The manager holds no Service Table; the table of the gateway is taken to
\* be the empty one.
Init ==
    /\ InitSessions
    /\ services = <<>>
    /\ svc_ret = SvcRet("new", 0, None, None, <<>>, 0)

\* SessionManager::send with get_session_mut, connect and Session::push.  The
\* caller is the upstream consumer, which polls the manager before it parks.
Send(service_id, session_id, len) ==
    /\ LET fresh == session_id \notin DOMAIN sessions
           c     == IF fresh THEN Len(ctxs) + 1 ELSE sessions[session_id].ctx
           cx0   == IF fresh
                    THEN Append(ctxs, NewContext(service_id, session_id))
                    ELSE ctxs
           r     == push_output_message(cx0[c], len)
       IN  /\ sessions' = IF fresh
                          THEN MapInsert(sessions, session_id,
                                         NewSession(service_id, c))
                          ELSE sessions
           /\ poll_order' = IF fresh THEN Register(poll_order, session_id)
                            ELSE poll_order
           /\ ctxs' = [cx0 EXCEPT ![c] = r.ctx]
           /\ bridge' = IF fresh THEN Append(bridge, NewBridge) ELSE bridge
           /\ hist' = LET h0 == IF fresh THEN Append(hist, NewHist) ELSE hist
                      IN  [h0 EXCEPT ![c].recorded =
                              @ \/ (r.ctx.error # cx0[c].error)]
           /\ nsend' = nsend + 1
           /\ ret' = Ret(IF fresh THEN "send_new" ELSE "send", c, "ok",
                         <<len>>, 0, service_id, session_id, <<>>)
    /\ awake' = TRUE
    /\ UNCHANGED <<nread, last, tvars>>

\* SessionManager::poll, called by the upstream consumer
Poll ==
    /\ LET r == PollLoop(Len(poll_order), sessions, poll_order, ctxs, <<>>)
       IN  /\ sessions' = r.sessions
           /\ poll_order' = r.poll_order
           /\ ctxs' = r.ctxs
           /\ awake' = (r.kind # "notready")
           /\ hist' = [c \in DOMAIN hist |->
                         IF c # r.ctx THEN hist[c]
                         ELSE IF r.kind = "some"
                         THEN [hist[c] EXCEPT
                                 !.delivered = Join(@, r.data)]
                         ELSE [hist[c] EXCEPT !.hups = @ + 1]]
           /\ ret' = [Ret("poll", r.ctx, r.kind, r.data, r.msg.error_code,
                          r.msg.service_id, r.msg.session_id, r.visited)
                         EXCEPT !.err = r.err]
           /\ last' = IF r.kind = "notready" THEN last
                      ELSE <<r.ctx, Len(ctxs)>>
    /\ UNCHANGED <<bridge, nsend, nread, tvars>>

\* the bridge hands msg to SessionTransport::start_send
StartSend(c, msg, off) ==
    LET r == push_input_data(ctxs[c], msg, BridgeTask)
    IN  /\ ctxs' = [ctxs EXCEPT ![c] = r.ctx]
        /\ bridge' = [bridge EXCEPT ![c].off = off,
                                    ![c].rem = IF r.kind = "notready"
                                               THEN r.rest ELSE <<off, off>>]
        /\ hist' = [hist EXCEPT ![c].accepted = Join(@, <<r.taken>>)]
        /\ awake' = (awake \/ Consumer \in r.wake)
        /\ ret' = Ret("push_input_data", c, r.kind, <<r.taken>>, 0, 0, 0, <<>>)
        /\ UNCHANGED <<sessions, poll_order, nsend, last, tvars>>

\* the bridge read a chunk of len bytes from the socket and sends it
BridgePush(c, len) ==
    /\ c \in Ctxs
    /\ bridge[c].rem[1] = bridge[c].rem[2]
    /\ nread' = nread + 1
    /\ StartSend(c, <<bridge[c].off, bridge[c].off + len>>, bridge[c].off + len)

\* the bridge sends the remainder that start_send gave back
BridgeRepush(c) ==
    /\ c \in Ctxs
    /\ bridge[c].rem[1] # bridge[c].rem[2]
    /\ nread' = nread
    /\ StartSend(c, bridge[c].rem, bridge[c].off)

\* SessionTransport::poll_complete
BridgeFlush(c) ==
    /\ c \in Ctxs
    /\ LET r == flush_input_buffer(ctxs[c], BridgeTask)
       IN  /\ ctxs' = [ctxs EXCEPT ![c] = r.ctx]
           /\ ret' = Ret("poll_complete", 0, r.kind, NoData, 0, 0, 0, <<>>)
    /\ UNCHANGED <<sessions, poll_order, awake, bridge, hist, nsend, nread,
                   last, tvars>>

\* SessionTransport::close
BridgeClose(c) ==
    /\ c \in Ctxs
    /\ LET r == flush_input_buffer(close(ctxs[c]), BridgeTask)
       IN  /\ ctxs' = [ctxs EXCEPT ![c] = r.ctx]
           /\ bridge' = [bridge EXCEPT ![c].closing = (r.kind = "notready")]
           /\ ret' = Ret("close", 0, r.kind, NoData, 0, 0, 0, <<>>)
    /\ UNCHANGED <<sessions, poll_order, awake, hist, nsend, nread, last,
                   tvars>>

\* SessionTransport::poll
BridgeTakeOutput(c) ==
    /\ c \in Ctxs
    /\ LET r == take_output_data(ctxs[c], BridgeTask)
       IN  /\ ctxs' = [ctxs EXCEPT ![c] = r.ctx]
           /\ ret' = Ret("take_output_data", c, r.kind, r.data, 0, 0, 0, <<>>)
    /\ UNCHANGED <<sessions, poll_order, awake, bridge, hist, nsend, nread,
                   last, tvars>>

\* SessionErrorHandler::set_error, called when the bridge ends with an error
BridgeSetError(c) ==
    /\ c \in Ctxs
    /\ LET cx1 == set_error(ctxs[c], "io")
       IN  /\ ctxs' = [ctxs EXCEPT ![c] = cx1]
           /\ hist' = [hist EXCEPT ![c].recorded =
                         @ \/ (cx1.error # ctxs[c].error)]
           /\ ret' = Ret("set_error", 0, "ok", NoData, 0, 0, 0, <<>>)
    /\ UNCHANGED <<sessions, poll_order, awake, bridge, nsend, nread, last,
                   tvars>>

\* -------------------------------------------------- the Service Table
\* ServiceTable::get
TableGet(id) ==
    /\ svc_ret' = SvcRet("get", id, None, get(services, id), <<>>, 0)
    /\ UNCHANGED <<svars, services>>

\* Encode::encode of the table into an empty buffer
TableEncodeInto ==
    /\ svc_ret' = SvcRet("encode", 0, None, None,
                         TableEncode(services, <<>>), 0)
    /\ UNCHANGED <<svars, services>>

\* MessageBody::len of the table
TableLenOf ==
    /\ svc_ret' = SvcRet("len", 0, None, None, <<>>, TableLen(services))
    /\ UNCHANGED <<svars, services>>

\* Encode::encode of a service into an empty buffer, and its MessageBody::len
ServiceEncodeInto(service) ==
    /\ svc_ret' = SvcRet("service_encode", service.id, Some(service), None,
                         ServiceEncode(service, <<>>), ServiceLen(service))
    /\ UNCHANGED <<svars, services>>

\* ---------------------------------------------------------- specifications
\* The manager with several sessions of one service; every payload and chunk
\* is one byte.  The bridge of a session acts until the HUP of the session is
\* returned: its context is closed by then, and a later push, close or
\* set_error would leave the context as it is.
OneByte == <<0, 1>>

Registered(c) == c \in Ctxs /\ hist[c].hups = 0

Next ==
    \/ \E session_id \in SessionIds :
          nsend < MaxSends /\ Send(1, session_id, OneByte)
    \/ Poll
    \/ \E c \in 1..MaxCtx :
          nread < MaxChunks /\ Registered(c) /\ BridgePush(c, 1)
    \/ \E c \in 1..MaxCtx : Registered(c) /\ BridgeClose(c)
    \/ \E c \in 1..MaxCtx : Registered(c) /\ BridgeSetError(c)

Spec == Init /\ [][Next]_vars

\* The consumer polls again whenever it was woken or got a Ready result; a
\* bridge whose close returned NotReady repeats it once it was woken, that
\* is once its handle was taken out of input_empty.
Fairness ==
    /\ WF_vars(awake /\ Poll)
    /\ \A c \in 1..MaxCtx :
          WF_vars(/\ Registered(c)
                  /\ bridge[c].closing
                  /\ ctxs[c].input_empty = NoTask
                  /\ BridgeClose(c))

FairSpec == Init /\ [][Next]_vars /\ Fairness

\* One session and its bridge, with every operation of the context and with
\* chunks and payloads that reach the limits of the buffers.
NextCtx ==
    \/ \E len \in SendLens :
          /\ nsend < CtxSends
          /\ ctxs = <<>> \/ 1 \in DOMAIN sessions
          /\ Send(1, 1, len)
    \/ Poll
    \/ \E len \in ChunkLens : nread < CtxChunks /\ BridgePush(1, len)
    \/ BridgeRepush(1)
    \/ BridgeFlush(1)
    \/ BridgeClose(1)
    \/ BridgeTakeOutput(1)
    \/ BridgeSetError(1)

SpecCtx == Init /\ [][NextCtx]_vars

\* The manager with three sessions created one after the other, each fed
\* one-byte chunks by its bridge, for the order in which poll serves them.
\* One of the bridges ends its session over a run.
NextRR ==
    \/ \E session_id \in RRSessionIds :
          /\ session_id = Len(ctxs) + 1
          /\ Send(1, session_id, OneByte)
    \/ Poll
    \/ \E c \in RRSessionIds :
          nread < RRChunks /\ Registered(c) /\ BridgePush(c, 1)
    \/ \E c \in RRSessionIds :
          /\ Registered(c)
          /\ \A d \in Ctxs \ {c} : ~ctxs[d].closed
          /\ BridgeClose(c)

SpecRR == Init /\ [][NextRR]_vars

\* One session fed one-byte chunks by its bridge, which flushes and closes
\* its transport.
NextClose ==
    \/ /\ nsend < CloseSends
       /\ ctxs = <<>> \/ 1 \in DOMAIN sessions
       /\ Send(1, 1, OneByte)
    \/ Poll
    \/ nread < CloseChunks /\ BridgePush(1, 1)
    \/ BridgeFlush(1)
    \/ BridgeClose(1)

SpecClose == Init /\ [][NextClose]_vars

\* The consumer polls again whenever it was woken or got a Ready result; the
\* bridge repeats a close that returned NotReady once it was woken, that is
\* once its handle was taken out of input_empty.
FairnessClose ==
    /\ WF_vars(awake /\ Poll)
    /\ WF_vars(/\ 1 \in Ctxs
               /\ bridge[1].closing
               /\ ctxs[1].input_empty = NoTask
               /\ BridgeClose(1))

FairSpecClose == Init /\ [][NextClose]_vars /\ FairnessClose

\* The manager receiving messages for session 1 whose headers name either of
\* two services; the session is created again after its HUP was returned.
NextIds ==
    \/ \E service_id \in ServiceIds :
          nsend < IdSends /\ Send(service_id, 1, OneByte)
    \/ Poll
    \/ \E c \in 1..MaxCtx :
          nread < IdChunks /\ Registered(c) /\ BridgePush(c, 1)
    \/ \E c \in 1..MaxCtx : Registered(c) /\ BridgeClose(c)
    \/ \E c \in 1..MaxCtx : Registered(c) /\ BridgeSetError(c)

SpecIds == Init /\ [][NextIds]_vars

\* A Service Table built from a sequence of services, and the calls on it
\* and on the services the constructors build.
InitSvc ==
    /\ InitSessions
    /\ services \in Tables
    /\ svc_ret = SvcRet("new", 0, None, None, <<>>, 0)

NextSvc ==
    \/ \E id \in Ids : TableGet(id)
    \/ TableEncodeInto
    \/ TableLenOf
    \/ \E service \in Constructible : ServiceEncodeInto(service)

SpecSvc == InitSvc /\ [][NextSvc]_vars

TypeOK ==
    /\ DOMAIN sessions \subseteq SessionIds \cup RRSessionIds
    /\ last[1] \in 0..Len(ctxs) /\ last[2] \in last[1]..Len(ctxs)
    /\ Len(ctxs) <= MaxCtx
    /\ Len(bridge) = Len(ctxs) /\ Len(hist) = Len(ctxs)
    /\ nsend \in 0..MaxCtx
    /\ nread \in Nat
    /\ services \in Tables
    /\ svc_ret.op \in {"new", "get", "encode", "len", "service_encode"}

--------------------------------------------------------------------------
\* What poll returned is the HUP of a session.
IsHup(r) == r.op = "poll" /\ r.kind \in {"none", "err"}

InOrder(session_id) == \E i \in DOMAIN poll_order : poll_order[i] = session_id

\* C1: a context gets at most one HUP, and only when it is closed with an
\* empty input buffer; when poll returns the HUP the session is neither in
\* the sessions map nor in poll_order, and no context that already had its
\* HUP is among the contexts a later poll calls take on.
C1_HupExactlyOnce ==
    /\ \A c \in Ctxs :
          /\ hist[c].hups <= 1
          /\ hist[c].hups = 1 =>
                /\ ctxs[c].closed /\ ctxs[c].input = <<>>
                /\ \A k \in DOMAIN sessions : sessions[k].ctx # c
    /\ IsHup(ret) =>
          /\ hist[ret.ctx].hups = 1
          /\ ret.session_id = ctxs[ret.ctx].session_id
          /\ ret.session_id \notin DOMAIN sessions
          /\ ~InOrder(ret.session_id)
    /\ ret.op = "poll" =>
          \A i \in DOMAIN ret.visited :
             \/ hist[ret.visited[i]].hups = 0
             \/ IsHup(ret) /\ ret.visited[i] = ret.ctx /\ i = Len(ret.visited)

\* a session got its HUP and a later poll called take on another session
C1_Witness ==
    /\ ret.op = "poll" /\ ret.visited # <<>>
    /\ \E c \in Ctxs : hist[c].hups = 1 /\ c # ret.ctx

\* C2: the HUP carries error_code 0 iff no error was recorded in the context
\* of the session, and 0x03 when one was recorded.
C2_HupCode ==
    IsHup(ret) =>
       /\ (ret.code = 0) <=> ~hist[ret.ctx].recorded
       /\ hist[ret.ctx].recorded => ret.code = 3
       /\ ret.code \in {0, 3}

\* the HUP of a session that ended by an overflow of its output buffer
C2_Witness ==
    /\ IsHup(ret) /\ ret.code = 3
    /\ ret.err = "output buffer limit exceeded"
    /\ hist[ret.ctx].recorded

\* C3: whenever a context is closed with an empty input buffer and its HUP
\* was not returned yet, poll eventually returns that HUP.
C3_HupEventually ==
    \A c \in 1..MaxCtx :
       (c \in Ctxs /\ ctxs[c].closed /\ ctxs[c].input = <<>>
          /\ hist[c].hups = 0)
       ~> (c \in Ctxs /\ hist[c].hups = 1)

\* C4: a task handle that is still parked in a slot waits for something that
\* has not happened yet.
C4_NoLostWakeup ==
    \A c \in Ctxs :
       /\ ctxs[c].input_ready # NoTask =>
             ctxs[c].input = <<>> /\ ~ctxs[c].closed
       /\ ctxs[c].output_ready # NoTask =>
             ctxs[c].output = <<>> /\ ~ctxs[c].closed
       /\ ctxs[c].input_empty # NoTask => ctxs[c].input # <<>>

\* C5: when the HUP of a session was returned, every byte its context
\* accepted was returned before, so no HUP is returned over buffered input.
C5_DataBeforeHup ==
    \A c \in Ctxs :
       hist[c].hups >= 1 =>
          /\ hist[c].delivered = hist[c].accepted
          /\ ctxs[c].input = <<>>

\* a HUP after bytes were accepted, all of them delivered
C5_Witness ==
    /\ IsHup(ret)
    /\ hist[ret.ctx].accepted # <<>>
    /\ hist[ret.ctx].delivered = hist[ret.ctx].accepted

\* C6: the bytes returned by take_input_message are a prefix of the bytes
\* push_input_data accepted, in the same order, and all of them once the
\* input buffer is empty.
C6_Fifo ==
    \A c \in Ctxs :
       /\ IsPrefix(hist[c].delivered, hist[c].accepted)
       /\ ctxs[c].input = <<>> => hist[c].delivered = hist[c].accepted
       /\ Join(hist[c].delivered, ctxs[c].input) = hist[c].accepted

\* part of a chunk was delivered, more is buffered, the rest is with the bridge
C6_Witness ==
    \E c \in Ctxs :
       /\ hist[c].delivered # <<>>
       /\ ctxs[c].input # <<>>
       /\ hist[c].delivered # hist[c].accepted
       /\ bridge[c].rem[1] # bridge[c].rem[2]

\* C7: the input buffer never holds more than INPUT_BUFFER_LIMIT bytes and
\* the subtraction in push_input_data never underflows.
C7_InputBounded ==
    /\ \A c \in Ctxs : BufLen(ctxs[c].input) <= INPUT_BUFFER_LIMIT
    /\ ret.kind # "panic"

\* a push into a full buffer: the subtraction gives 0 and nothing is appended
C7_Witness ==
    /\ ret.op = "push_input_data" /\ ret.kind = "notready"
    /\ ret.data = <<<<bridge[ret.ctx].rem[1], bridge[ret.ctx].rem[1]>>>>
    /\ BufLen(ctxs[ret.ctx].input) = INPUT_BUFFER_LIMIT

SpecOutputLimit == <<Limb - 1, Limb - 1>>

\* C8 as stated: the output buffer never holds more than 4_294_967_295 bytes.
C8_OutputWithinStatedLimit ==
    \A c \in Ctxs : ~BigGT(OutLen(ctxs[c].output), SpecOutputLimit)

\* C8 amended: the output buffer never holds more than 4_294_967_296 bytes
\* (OUTPUT_BUFFER_LIMIT, 4 GiB), and a push on an open context that would
\* bring it above that leaves the buffer as it was and puts the context into
\* the error state.
C8_OutputBounded ==
    [][\A c \in 1..Len(ctxs') :
          /\ ~BigGT(OutLen(ctxs'[c].output), OUTPUT_BUFFER_LIMIT)
          /\ (/\ c \in Ctxs
              /\ ret'.op = "send" /\ ret'.ctx = c
              /\ ~ctxs[c].closed
              /\ BigGT(BigAdd(OutLen(ctxs[c].output), ret'.data[1]),
                       OUTPUT_BUFFER_LIMIT))
             => /\ ctxs'[c].output = ctxs[c].output
                /\ ctxs'[c].closed
                /\ ctxs'[c].error = "output buffer limit exceeded"]_vars

\* a payload that would bring the buffer to 4 GiB + 1 was rejected
C8_Witness ==
    /\ ret.op = "send" /\ ret.data = <<(<<0, 2>>)>>
    /\ ctxs[ret.ctx].error = "output buffer limit exceeded"
    /\ OutLen(ctxs[ret.ctx].output) = SpecOutputLimit

\* C9: a closed context stays closed and its buffers do not grow: a payload
\* pushed into it is dropped, a chunk pushed into it is refused with an
\* error, and the take operations return what was buffered, in order.
C9_ClosedStays ==
    [][\A c \in Ctxs :
          ctxs[c].closed =>
             /\ ctxs'[c].closed
             /\ \/ ctxs'[c].input = ctxs[c].input
                \/ /\ ctxs'[c].input = <<>>
                   /\ ret'.op = "poll" /\ ret'.ctx = c /\ ret'.kind = "some"
                   /\ ret'.data = ctxs[c].input
             /\ \/ ctxs'[c].output = ctxs[c].output
                \/ /\ ctxs'[c].output = <<>>
                   /\ ret'.op = "take_output_data" /\ ret'.ctx = c
                   /\ ret'.kind = "some"
                   /\ ret'.data = ctxs[c].output
             /\ (ret'.op = "send" /\ ret'.ctx = c) =>
                   /\ ctxs'[c].output = ctxs[c].output
                   /\ ctxs'[c].error = ctxs[c].error
             /\ (ret'.op = "push_input_data" /\ ret'.ctx = c) =>
                   /\ ret'.kind = "err"
                   /\ ctxs'[c].input = ctxs[c].input
             /\ (ret'.op = "poll" /\ ret'.ctx = c /\ ctxs[c].input # <<>>) =>
                   ret'.kind = "some" /\ ctxs'[c].input = <<>>
             /\ (ret'.op = "take_output_data" /\ ret'.ctx = c
                   /\ ctxs[c].output # <<>>) =>
                   ret'.kind = "some" /\ ctxs'[c].output = <<>>]_vars

\* a chunk was refused by a closed context that still holds input and output
C9_Witness ==
    /\ ret.op = "push_input_data" /\ ret.kind = "err"
    /\ ctxs[ret.ctx].closed
    /\ ctxs[ret.ctx].input # <<>>
    /\ ctxs[ret.ctx].output # <<>>

\* C10: poll_order holds exactly the keys of the sessions map, each once.
C10_Registry ==
    /\ Len(poll_order) = Cardinality(DOMAIN sessions)
    /\ {poll_order[i] : i \in DOMAIN poll_order} = DOMAIN sessions

\* two sessions are registered and a poll has rotated the queue past a HUP
C10_Witness ==
    /\ Len(poll_order) = 1
    /\ IsHup(ret)
    /\ Len(ret.visited) = 2

\* the step is a call of poll that returned a message
PollReturned == ret'.op = "poll" /\ ret'.kind # "notready"

\* a registered session other than that of context c, among the first n
\* contexts, has buffered input
OtherHasInput(c, n) ==
    \E k \in DOMAIN sessions :
       /\ sessions[k].ctx # c /\ sessions[k].ctx <= n
       /\ ctxs[sessions[k].ctx].input # <<>>

\* C11 as stated: the session that produced the message of one poll does
\* not produce the message of the next poll that returns one whenever any
\* other session has buffered input at that call.
C11_NextFromOther ==
    [][(PollReturned /\ last # NoLast /\ OtherHasInput(last[1], Len(ctxs)))
          => ret'.ctx # last[1]]_vars

\* sessions 1, 2, 3 were created in that order, each got one chunk, and the
\* chunks of the sessions before the k-th were returned
Scenario(k) ==
    /\ Len(ctxs) = 3 /\ DOMAIN sessions = {1, 2, 3}
    /\ \A c \in 1..3 :
          /\ sessions[c].ctx = c /\ ~ctxs[c].closed
          /\ hist[c].accepted = <<(<<0, 1>>)>>
          /\ hist[c].delivered = IF c < k THEN hist[c].accepted ELSE <<>>

\* C11 amended: a session that produced the message returned by one poll is
\* moved to the tail of poll_order, and the next poll that returns a message
\* returns it from a different session whenever any other session that was
\* registered at the first of the two polls has buffered input at that call;
\* with sessions A, B, C created in that order and one chunk buffered in
\* each, the polls return the messages of A, B, C and then NotReady.
C11_RoundRobin ==
    [][/\ (PollReturned /\ ret'.kind = "some") =>
             /\ poll_order' # <<>>
             /\ poll_order'[Len(poll_order')] = ret'.session_id
       /\ (PollReturned /\ last # NoLast /\ OtherHasInput(last[1], last[2]))
             => ret'.ctx # last[1]
       /\ \A k \in 1..4 :
             (Scenario(k) /\ ret'.op = "poll") =>
                IF k <= 3 THEN ret'.kind = "some" /\ ret'.ctx = k
                ELSE ret'.kind = "notready"]_vars

\* the fourth poll of the scenario: A, B and C were served, C last
C11_Witness ==
    /\ Scenario(4)
    /\ ret.op = "poll" /\ ret.kind = "notready" /\ Len(ret.visited) = 3
    /\ last = <<3, 3>>
    /\ poll_order = <<1, 2, 3>>

\* C12: a send with a session id that is not in sessions makes one connect
\* (one new context with its bridge), inserts the session, appends its id to
\* the tail of poll_order and pushes the payload into the output buffer of
\* the new context; a send with a session id that is in sessions makes no
\* connect, leaves sessions and poll_order as they are and only pushes the
\* payload into the output buffer of the context of that session (where
\* push_output_message drops it when the context is closed).
C12_Send ==
    [][ret'.op \in {"send", "send_new"} =>
         LET sid == ret'.session_id
             c   == ret'.ctx
         IN  IF sid \notin DOMAIN sessions
             THEN /\ Len(ctxs') = Len(ctxs) + 1 /\ c = Len(ctxs')
                  /\ Len(bridge') = Len(bridge) + 1
                  /\ \A d \in Ctxs : ctxs'[d] = ctxs[d] /\ bridge'[d] = bridge[d]
                  /\ DOMAIN sessions' = DOMAIN sessions \cup {sid}
                  /\ \A k \in DOMAIN sessions : sessions'[k] = sessions[k]
                  /\ sessions'[sid].ctx = c
                  /\ sessions'[sid].service_id = ret'.service_id
                  /\ ctxs'[c].session_id = sid
                  /\ ctxs'[c].service_id = ret'.service_id
                  /\ poll_order' = Append(poll_order, sid)
                  /\ ctxs'[c].output = ret'.data
                  /\ ctxs'[c].input = <<>> /\ ~ctxs'[c].closed
             ELSE /\ Len(ctxs') = Len(ctxs) /\ bridge' = bridge
                  /\ sessions' = sessions
                  /\ poll_order' = poll_order
                  /\ c = sessions[sid].ctx
                  /\ \A d \in Ctxs \ {c} : ctxs'[d] = ctxs[d]
                  /\ ctxs'[c].output =
                        IF ctxs[c].closed THEN ctxs[c].output
                        ELSE ctxs[c].output \o ret'.data
                  /\ ctxs'[c].input = ctxs[c].input
                  /\ ctxs'[c].closed = ctxs[c].closed]_vars

\* a session was connected by one send and got the payload of a second one
C12_Witness ==
    /\ ret.op = "send"
    /\ Len(ctxs) = 1
    /\ poll_order = <<ret.session_id>>
    /\ ctxs[ret.ctx].output = <<OneByte, OneByte>>

\* the table resolves the service id to a socket address
Resolves(table, id) ==
    LET found == get(table, id)
    IN  found # None /\ found[1].address # None

\* C13: a send that has to connect and whose service id the Service Table
\* does not resolve to an address returns an error, creates no session and
\* leaves sessions and poll_order as they are.
C13_ConnectResolves ==
    [][(/\ ret'.op \in {"send", "send_new"}
        /\ ret'.session_id \notin DOMAIN sessions
        /\ ~Resolves(services, ret'.service_id))
          => /\ ret'.kind = "err"
             /\ sessions' = sessions
             /\ poll_order' = poll_order
             /\ ctxs' = ctxs]_vars

\* the chunk that the bridge of context c hands to push_input_data in this
\* step: the remainder it was given back, or else the next bytes of the socket
Chunk(c) ==
    IF bridge[c].rem[1] # bridge[c].rem[2] THEN bridge[c].rem
    ELSE <<bridge[c].off, bridge'[c].off>>

Min(a, b) == IF a < b THEN a ELSE b

\* C14: on an open context push_input_data appends exactly the leading
\* min(len(chunk), INPUT_BUFFER_LIMIT - input.len) bytes of the chunk, returns
\* Ready iff that is the whole chunk, and otherwise returns NotReady with
\* the rest of the chunk and parks the caller in input_empty; a take that
\* finds bytes in the buffer returns all of them, empties the buffer and
\* takes the parked pusher out of input_empty to wake it.
C14_Backpressure ==
    [][\A c \in Ctxs :
          /\ (ret'.op = "push_input_data" /\ ret'.ctx = c /\ ~ctxs[c].closed) =>
                LET chunk == Chunk(c)
                    n     == Min(chunk[2] - chunk[1],
                                 INPUT_BUFFER_LIMIT - BufLen(ctxs[c].input))
                IN  /\ n >= 0
                    /\ BufLen(ctxs'[c].input) = BufLen(ctxs[c].input) + n
                    /\ ctxs'[c].input =
                          Join(ctxs[c].input, <<(<<chunk[1], chunk[1] + n>>)>>)
                    /\ ret'.kind \in {"ready", "notready"}
                    /\ ret'.kind = "ready" <=> n = chunk[2] - chunk[1]
                    /\ ret'.kind = "ready" =>
                          /\ bridge'[c].rem[1] = bridge'[c].rem[2]
                          /\ ctxs'[c].input_empty = ctxs[c].input_empty
                    /\ ret'.kind = "notready" =>
                          /\ bridge'[c].rem = <<chunk[1] + n, chunk[2]>>
                          /\ ctxs'[c].input_empty = BridgeTask
          /\ (ret'.op = "poll" /\ ret'.visited # <<>>
                /\ ret'.visited[Len(ret'.visited)] = c
                /\ ctxs[c].input # <<>>) =>
                /\ ret'.kind = "some" /\ ret'.ctx = c
                /\ ret'.data = ctxs[c].input
                /\ ctxs'[c].input = <<>>
                /\ ctxs'[c].input_empty = NoTask]_vars

\* a chunk of 40000 bytes: 32768 were accepted and taken, and the second
\* push of the remaining 7232 returned Ready
C14_Witness ==
    /\ ret.op = "push_input_data" /\ ret.kind = "ready"
    /\ ret.data = <<(<<32768, 40000>>)>>
    /\ hist[ret.ctx].delivered = <<(<<0, 32768>>)>>
    /\ ctxs[ret.ctx].input = <<(<<32768, 40000>>)>>
    /\ ~ctxs[ret.ctx].closed

OutputOverflow == "output buffer limit exceeded"

\* C15: a push_output_message on an open context whose payload would bring
\* the output buffer above OUTPUT_BUFFER_LIMIT appends nothing, closes the
\* context and records the error "output buffer limit exceeded"; while that
\* error is recorded the context is closed, a poll that reaches the session
\* returns its buffered input as long as there is some and keeps the error,
\* and with the input empty returns the HUP with error code 0x03.
C15_OverflowFatal ==
    [][\A c \in Ctxs :
          /\ (/\ ret'.op = "send" /\ ret'.ctx = c /\ ~ctxs[c].closed
              /\ BigGT(BigAdd(OutLen(ctxs[c].output), ret'.data[1]),
                       OUTPUT_BUFFER_LIMIT))
                => /\ ctxs'[c].output = ctxs[c].output
                   /\ ctxs'[c].input = ctxs[c].input
                   /\ ctxs'[c].closed
                   /\ ctxs'[c].error = OutputOverflow
          /\ ctxs[c].error = OutputOverflow =>
                /\ ctxs[c].closed
                /\ hist[c].hups = 0
                /\ \E k \in DOMAIN sessions : sessions[k].ctx = c
                /\ ret'.op # "poll" => ctxs'[c].error = OutputOverflow
                /\ (ret'.op = "poll" /\ ctxs[c].input # <<>>) =>
                      /\ ret'.kind = "some" /\ ret'.ctx = c
                      /\ ret'.data = ctxs[c].input
                      /\ ctxs'[c].error = OutputOverflow
                /\ (ret'.op = "poll" /\ ctxs[c].input = <<>>) =>
                      /\ ret'.kind = "err" /\ ret'.ctx = c
                      /\ ret'.code = 3 /\ ret'.err = OutputOverflow
                      /\ hist'[c].hups = 1
                      /\ \A k \in DOMAIN sessions' : sessions'[k].ctx # c]_vars

\* the output overflowed over buffered input, which poll has just returned;
\* the error is still to be reported
C15_Witness ==
    /\ ret.op = "poll" /\ ret.kind = "some"
    /\ ctxs[ret.ctx].error = OutputOverflow
    /\ ctxs[ret.ctx].closed /\ ctxs[ret.ctx].input = <<>>
    /\ OutLen(ctxs[ret.ctx].output) = SpecOutputLimit

\* C16: set_error on an open context closes it and records the error and
\* changes nothing else; set_error on a closed context changes nothing; a
\* recorded error is never replaced, it only leaves the context when poll
\* returns it as the HUP.  (SpecCtx has one context, the one of every call.)
C16_FirstErrorWins ==
    [][\A c \in Ctxs :
          /\ ret'.op = "set_error" =>
                IF ctxs[c].closed THEN ctxs'[c] = ctxs[c]
                ELSE ctxs'[c] = [ctxs[c] EXCEPT !.closed = TRUE, !.error = "io"]
          /\ ctxs[c].error # NoError =>
                \/ ctxs'[c].error = ctxs[c].error
                \/ /\ ctxs'[c].error = NoError
                   /\ ret'.op = "poll" /\ ret'.kind = "err" /\ ret'.ctx = c
                   /\ ret'.err = ctxs[c].error
          /\ (ctxs[c].closed /\ ctxs[c].error = NoError) =>
                ctxs'[c].error = NoError]_vars

\* an error was reported after close(): nothing was recorded
C16_Witness ==
    /\ ret.op = "set_error"
    /\ \E c \in Ctxs :
          /\ ctxs[c].closed /\ ctxs[c].error = NoError
          /\ ~hist[c].recorded /\ hist[c].hups = 0

\* C17: get(0) returns the Control Protocol service (id 0, no MAC, no
\* address, no path) whatever the table stores; get of another id returns
\* the first stored service with that id, and None when there is none.
C17_Get ==
    svc_ret.op = "get" =>
       LET hits == {i \in DOMAIN services : services[i].id = svc_ret.id}
       IN  IF svc_ret.id = 0
           THEN svc_ret.found =
                   <<[svc_type |-> "ControlProtocol", id |-> 0, mac |-> <<>>,
                      address |-> <<>>, path |-> <<>>]>>
           ELSE IF hits = {} THEN svc_ret.found = <<>>
           ELSE /\ Len(svc_ret.found) = 1
                /\ \E i \in hits :
                      /\ \A j \in hits : i <= j
                      /\ svc_ret.found[1] = services[i]

\* get(0) on a table that stores a service under id 0
C17_Witness ==
    /\ svc_ret.op = "get" /\ svc_ret.id = 0
    /\ \E i \in DOMAIN services : services[i].id = 0
    /\ svc_ret.found # <<>> /\ svc_ret.found[1].svc_type = "ControlProtocol"

\* the encodings of the services of seq, one after the other
RECURSIVE ConcatEncodings(_)
ConcatEncodings(seq) ==
    IF seq = <<>> THEN <<>>
    ELSE ServiceEncode(Head(seq), <<>>) \o ConcatEncodings(Tail(seq))

\* the sum of 29 + len(path) + 1 over the services of seq
RECURSIVE SumOfLengths(_)
SumOfLengths(seq) ==
    IF seq = <<>> THEN 0
    ELSE LET path == Head(seq).path
         IN  29 + (IF path = <<>> THEN 0 ELSE Len(path[1])) + 1
                + SumOfLengths(Tail(seq))

\* C18: the encoding of the table is the encodings of the stored services in
\* their order followed by the encoding of the Control Protocol service; len
\* of the table is the number of bytes encode appends, the sum of
\* 29 + len(path) + 1 over the stored services plus 30; and len of a service
\* is the number of bytes its encode appends, 29 + len(path) + 1.
C18_TableEncoding ==
    /\ svc_ret.op = "encode" =>
          /\ svc_ret.buf =
                ConcatEncodings(services) \o ServiceEncode(control, <<>>)
          /\ Len(svc_ret.buf) = SumOfLengths(services) + 30
    /\ svc_ret.op = "len" =>
          /\ svc_ret.len = Len(TableEncode(services, <<>>))
          /\ svc_ret.len = SumOfLengths(services) + 30
    /\ svc_ret.op = "service_encode" =>
          /\ svc_ret.len = Len(svc_ret.buf)
          /\ svc_ret.len = SumOfLengths(svc_ret.svc)
          /\ svc_ret.buf[Len(svc_ret.buf)] = 0

\* len of a table of an RTSP service with a path of one byte and a service
\* without a path: 31 + 30 + 30
C18_Witness ==
    /\ svc_ret.op = "len" /\ svc_ret.len = 91
    /\ Len(services) = 2
    /\ services[1].path = <<(<<97>>)>> /\ services[2].path = <<>>

\* C19 as stated: no other service the constructors build has the encoding
\* of the encoded one, so that a decoder can give back the service.
C19_EncodeInjective ==
    svc_ret.op = "service_encode" =>
       \A other \in Constructible :
          ServiceEncode(other, <<>>) = svc_ret.buf => other = svc_ret.svc[1]

\* what the layout carries of a service: a path that is missing or not
\* empty, and an address without an IPv6 scope id
Carried(service) ==
    /\ service.path # <<(<<>>)>>
    /\ service.address # <<>> => service.address[1].scope = 0

\* C19 amended: among the services the constructors build whose path is not
\* Some("") and whose address has no IPv6 scope id, no other service has the
\* encoding of the encoded one.
C19_EncodeInjectiveCarried ==
    (svc_ret.op = "service_encode" /\ Carried(svc_ret.svc[1])) =>
       \A other \in Constructible :
          (Carried(other) /\ ServiceEncode(other, <<>>) = svc_ret.buf)
             => other = svc_ret.svc[1]

\* a locked RTSP service without a path was encoded: 30 bytes, which are
\* also the encoding of the service with the path Some("")
C19_Witness ==
    /\ svc_ret.op = "service_encode"
    /\ svc_ret.svc[1].svc_type = "LockedRTSP" /\ svc_ret.svc[1].path = <<>>
    /\ Len(svc_ret.buf) = 30
    /\ ServiceEncode([svc_ret.svc[1] EXCEPT !.path = <<(<<>>)>>], <<>>)
          = svc_ret.buf

\* take_input_message on context c returns something else than NotReady
TakeIsReady(c) == ctxs[c].input # <<>> \/ ctxs[c].closed

\* C20: one call of poll calls take on at most n sessions, n the length of
\* poll_order at entry, on each at most once and in the order of poll_order;
\* it returns the result of the first session whose take is ready, having
\* called take on no session behind it, or NotReady after the takes of all
\* n sessions returned NotReady.
C20_PollBounded ==
    [][ret'.op = "poll" =>
         LET visited == ret'.visited
             n       == Len(poll_order)
         IN  /\ Len(visited) <= n
             /\ \A i, j \in DOMAIN visited : visited[i] = visited[j] => i = j
             /\ \A i \in DOMAIN visited :
                   /\ poll_order[i] \in DOMAIN sessions
                   /\ visited[i] = sessions[poll_order[i]].ctx
                   /\ i < Len(visited) => ~TakeIsReady(visited[i])
             /\ IF ret'.kind = "notready"
                THEN /\ Len(visited) = n
                     /\ \A i \in DOMAIN visited : ~TakeIsReady(visited[i])
                     /\ poll_order' = poll_order
                ELSE /\ visited # <<>>
                     /\ ret'.ctx = visited[Len(visited)]
                     /\ TakeIsReady(ret'.ctx)]_vars

\* with three sessions registered, poll found the first one not ready,
\* returned the message of the second and did not come to the third
C20_Witness ==
    /\ ret.op = "poll" /\ ret.kind = "some"
    /\ Len(ret.visited) = 2
    /\ Len(poll_order) = 3
    /\ poll_order[3] = ret.session_id

\* C21: close of the transport closes the context and returns Ready iff the
\* input buffer is empty; over buffered input it returns NotReady, leaves
\* the buffer as it is and parks the caller in input_empty; the take that
\* drains the input takes the caller out of input_empty to wake it, and a
\* close over the empty buffer returns Ready; with the consumer polling
\* whenever it is awake and the woken bridge repeating its close, a close
\* that returned NotReady is followed by one that returns Ready.
C21_CloseCompletes ==
    /\ [][\A c \in Ctxs :
            /\ ret'.op = "close" =>
                  /\ ctxs'[c].closed
                  /\ ctxs'[c].input = ctxs[c].input
                  /\ ret'.kind = "ready" <=> ctxs[c].input = <<>>
                  /\ ret'.kind = "ready" =>
                        /\ ~bridge'[c].closing
                        /\ ctxs'[c].input_empty = ctxs[c].input_empty
                  /\ ret'.kind # "ready" =>
                        /\ ret'.kind = "notready"
                        /\ bridge'[c].closing
                        /\ ctxs'[c].input_empty = BridgeTask
            /\ (ret'.op = "poll" /\ ret'.ctx = c /\ bridge[c].closing
                  /\ ctxs[c].input # <<>>) =>
                  /\ ret'.kind = "some" /\ ret'.data = ctxs[c].input
                  /\ ctxs'[c].input = <<>>
                  /\ ctxs'[c].input_empty = NoTask]_vars
    /\ \A c \in {1} :
          (c \in Ctxs /\ bridge[c].closing)
             ~> (c \in Ctxs /\ ~bridge[c].closing /\ ret.op = "close"
                   /\ ret.kind = "ready")

\* a close is pending over buffered input that poll has just drained, and
\* the bridge was taken out of input_empty
C21_Witness ==
    /\ ret.op = "poll" /\ ret.kind = "some"
    /\ bridge[ret.ctx].closing
    /\ ctxs[ret.ctx].closed /\ ctxs[ret.ctx].input = <<>>
    /\ ctxs[ret.ctx].input_empty = NoTask

\* C22: a poll that returns NotReady leaves the sessions map and poll_order
\* as they were at entry, the order of the ids included (every session was
\* taken out and put back, a full rotation), and leaves the input buffer,
\* the output buffer, the closed flag and the error of every context alone.
C22_NotReadyFrame ==
    [][(ret'.op = "poll" /\ ret'.kind = "notready") =>
          /\ sessions' = sessions
          /\ DOMAIN sessions' = DOMAIN sessions
          /\ poll_order' = poll_order
          /\ Len(ret'.visited) = Len(poll_order)
          /\ DOMAIN ctxs' = DOMAIN ctxs
          /\ \A c \in Ctxs :
                /\ ctxs'[c].input = ctxs[c].input
                /\ ctxs'[c].output = ctxs[c].output
                /\ ctxs'[c].closed = ctxs[c].closed
                /\ ctxs'[c].error = ctxs[c].error]_vars

\* poll went through two registered sessions, one of them with buffered
\* output, and returned NotReady
C22_Witness ==
    /\ ret.op = "poll" /\ ret.kind = "notready"
    /\ Len(ret.visited) = 2 /\ Len(poll_order) = 2
    /\ \E c \in Ctxs : ctxs[c].output # <<>>
    /\ \E c \in Ctxs : hist[c].delivered # <<>>

\* C23: sessions are keyed by the session id alone.  A send for a registered
\* session id goes to the existing session whatever service id its header
\* names: nothing is created or re-queued, and unless the context is closed
\* the payload is appended to its output.  A new session and its context
\* take the service id of the message that creates them, neither ever
\* changes it, and every Arrow Message and HUP poll returns for the session
\* carries that service id and the session id.
C23_KeyedBySessionId ==
    /\ [](\A k \in DOMAIN sessions :
            /\ ctxs[sessions[k].ctx].session_id = k
            /\ ctxs[sessions[k].ctx].service_id = sessions[k].service_id)
    /\ [][/\ \A c \in Ctxs :
              /\ ctxs'[c].service_id = ctxs[c].service_id
              /\ ctxs'[c].session_id = ctxs[c].session_id
          /\ \A k \in DOMAIN sessions \cap DOMAIN sessions' :
              sessions'[k] = sessions[k]
          /\ ret'.op = "send_new" =>
              /\ ret'.session_id \notin DOMAIN sessions
              /\ ret'.ctx = Len(ctxs) + 1
              /\ ctxs'[ret'.ctx].service_id = ret'.service_id
              /\ sessions'[ret'.session_id] =
                    [service_id |-> ret'.service_id, ctx |-> ret'.ctx]
          /\ ret'.op = "send" =>
              /\ ret'.session_id \in DOMAIN sessions
              /\ ret'.ctx = sessions[ret'.session_id].ctx
              /\ sessions' = sessions
              /\ poll_order' = poll_order
              /\ Len(ctxs') = Len(ctxs)
              /\ ~ctxs[ret'.ctx].closed =>
                    ctxs'[ret'.ctx].output =
                       Append(ctxs[ret'.ctx].output, OneByte)
          /\ (ret'.op = "poll" /\ ret'.kind # "notready") =>
              /\ ret'.service_id = ctxs[ret'.ctx].service_id
              /\ ret'.session_id = ctxs[ret'.ctx].session_id]_vars

\* a message naming another service than the one the session was created
\* with was pushed into the output of the open session
C23_Witness ==
    /\ ret.op = "send" /\ ret.ctx \in Ctxs
    /\ ret.service_id # ctxs[ret.ctx].service_id
    /\ sessions[ret.session_id].service_id = ctxs[ret.ctx].service_id
    /\ ctxs[ret.ctx].output = <<OneByte, OneByte>>

\* poll returned the HUP of the latest session created under this session id
HupEmitted(session_id) ==
    \E d \in Ctxs :
       /\ ctxs[d].session_id = session_id /\ hist[d].hups > 0
       /\ \A e \in Ctxs : e > d => ctxs[e].session_id # session_id

\* C24: a send for a session that is closed and still registered (its HUP was
\* not polled yet) is dropped without an error: it changes no context, no
\* session and not poll_order.  A send for a session id whose (latest) HUP
\* was returned finds no session and creates a new one under the same id, with a
\* new open context holding the payload and the id at the tail of
\* poll_order.  Every incarnation gets at most one HUP, so that one session
\* id can get several (C24_Witness).
C24_SendAfterClose ==
    /\ [](\A c \in Ctxs : hist[c].hups <= 1)
    /\ [](\A k \in DOMAIN sessions : hist[sessions[k].ctx].hups = 0)
    /\ [][\A k \in SessionIds :
            (ret'.op \in {"send", "send_new"} /\ ret'.session_id = k) =>
               /\ ret'.kind = "ok"
               /\ (k \in DOMAIN sessions /\ ctxs[sessions[k].ctx].closed) =>
                     /\ ret'.op = "send"
                     /\ ctxs' = ctxs
                     /\ sessions' = sessions
                     /\ poll_order' = poll_order
                     /\ hist' = hist
               /\ HupEmitted(k) =>
                     /\ k \notin DOMAIN sessions
                     /\ ret'.op = "send_new"
                     /\ Len(ctxs') = Len(ctxs) + 1
                     /\ \A d \in Ctxs : ctxs'[d] = ctxs[d]
                     /\ sessions'[k].ctx = Len(ctxs')
                     /\ ctxs'[Len(ctxs')] =
                           [NewContext(ret'.service_id, k)
                              EXCEPT !.output = <<OneByte>>]
                     /\ poll_order' = Append(poll_order, k)
                     /\ hist'[Len(ctxs')].hups = 0]_vars

\* poll returned the HUP of the second session created under a session id
\* whose first session had got its HUP
C24_Witness ==
    /\ ret.op = "poll" /\ ret.kind \in {"none", "err"}
    /\ \E d \in Ctxs :
          /\ d # ret.ctx
          /\ ctxs[d].session_id = ret.session_id
          /\ hist[d].hups = 1
    /\ hist[ret.ctx].hups = 1

====
